---- MODULE Spec2Model ----
(***************************************************************************)
(* A model of src/fetch.py: AlphaVantageDataFetcher and main.              *)
(*                                                                         *)
(* One run of main() is a state machine: the fetcher is constructed, the   *)
(* four remote calls are issued one after another, the volatility column   *)
(* is derived, the indicator columns are merged and the table is exported. *)
(* Every remote call draws its response from a bounded set of responses;   *)
(* an exception that nothing catches ends the run in pc = "raised".        *)
(*                                                                         *)
(* Representation.                                                         *)
(*  - A date key of a payload is a record [date, form]: the calendar day   *)
(*    it denotes and the way it is spelled ("iso" such as 2024-01-02,      *)
(*    "alt" another spelling of the same day that pandas.to_datetime also  *)
(*    accepts, "bad" a string that is no date).                            *)
(*  - A raw value is a record [text, number]: text = "num" is the decimal  *)
(*    string of number, text = "bad" a string float() rejects.             *)
(*  - A float cell is a record [kind, num, den]: "nan", "num" (num/den)    *)
(*    or "sqrt" (the square root of num/den).                              *)
(*  - A DataFrame is [index, columns, rows]: rows[i] maps each column      *)
(*    name to a cell.                                                      *)
(***************************************************************************)
EXTENDS Integers, Sequences, FiniteSets

VARIABLES pc, credential, config, requests, response, error,
          price_data, rsi, macd, sma, combined_data, exported

vars == <<pc, credential, config, requests, response, error,
          price_data, rsi, macd, sma, combined_data, exported>>

----------------------------------------------------------------------------
(* Bounds of the model *)

\* calendar days 1..NumDates appear in the short payloads
NumDates == 2
\* a short payload holds at most this many entries
MaxEntries == 2
\* the long price payloads hold up to this many rows
MaxRows == 22

----------------------------------------------------------------------------
(* Values *)

Range(s) == {s[i] : i \in 1..Len(s)}

\* date keys
IsoKey(d) == [date |-> d, form |-> "iso"]
AltKey(d) == [date |-> d, form |-> "alt"]
BadKey == [date |-> 0, form |-> "bad"]

\* raw values, fields and entries of a payload
Num(n) == [text |-> "num", number |-> n]
BadString == [text |-> "bad", number |-> 0]
Field(f, raw) == [name |-> f, value |-> raw]
Entry(k, fs) == [key |-> k, fields |-> fs]

\* float cells
NaN == [kind |-> "nan", num |-> 0, den |-> 1]
Float(n) == [kind |-> "num", num |-> n, den |-> 1]

\* pd.DataFrame()
EmptyDataFrame == [index |-> <<>>, columns |-> <<>>, rows |-> <<>>]

\* the two ways a call ends
Ok(v) == [ok |-> TRUE, val |-> v]
Raised(e) == [ok |-> FALSE, err |-> e]

\* a response: how the transport ended, and the decoded body as its one
\* top-level key with the payload under it
Body(k, p) == [name |-> k, payload |-> p]
Response(f, t, b) == [function |-> f, transport |-> t, body |-> b]

NoResponse == Response("", "ok", Body("", <<>>))
NoError == [at |-> "", type |-> ""]

RECURSIVE Gcd(_, _)
Gcd(a, b) == IF b = 0 THEN a ELSE Gcd(b, a % b)

Abs(a) == IF a < 0 THEN -a ELSE a

\* the fraction num/den (den > 0) in lowest terms
Reduced(kind, num, den) ==
    LET g == Gcd(Abs(num), den)
    IN  [kind |-> kind, num |-> num \div g, den |-> den \div g]

----------------------------------------------------------------------------
(* pandas.DataFrame *)

\* DataFrame.empty: any axis of length 0
IsEmpty(df) == Len(df.index) = 0 \/ Len(df.columns) = 0

HasField(entry, name) == \E j \in 1..Len(entry.fields) : entry.fields[j].name = name

FieldValue(entry, name) ==
    (CHOOSE f \in Range(entry.fields) : f.name = name).value

\* the place of a field name in an entry
FieldPos(entry, name) == CHOOSE j \in 1..Len(entry.fields) : entry.fields[j].name = name

\* the first entry of the payload that holds field name
FirstEntryWith(payload, name) ==
    CHOOSE i \in 1..Len(payload) :
        /\ HasField(payload[i], name)
        /\ \A k \in 1..(i - 1) : ~HasField(payload[k], name)

\* the columns from_dict(orient='index') builds: the field names in the order
\* of their first appearance, entry after entry
NestedColumns(payload) ==
    LET names == UNION {{f.name : f \in Range(payload[i].fields)} : i \in 1..Len(payload)}
        Before(a, b) ==
            LET ia == FirstEntryWith(payload, a)
                ib == FirstEntryWith(payload, b)
            IN  \/ ia < ib
                \/ ia = ib /\ FieldPos(payload[ia], a) < FieldPos(payload[ib], b)
    IN  [r \in 1..Cardinality(names) |->
            CHOOSE a \in names : Cardinality({b \in names : Before(b, a)}) = r - 1]

\* float(s) of a raw value
ParseFloat(raw) == IF raw.text = "num" THEN Ok(Float(raw.number)) ELSE Raised("ValueError")

\* the index from_dict(orient='index') builds: the payload is turned into
\* one mapping per column, and the index is the union of their keys in the
\* order of first appearance (column after column, and inside a column in the
\* payload's order), so an entry with no field at all gives no row
NestedIndex(payload, cols) ==
    LET held == {i \in 1..Len(payload) : payload[i].fields # <<>>}
        FirstCol(i) == CHOOSE c \in 1..Len(cols) :
                          /\ HasField(payload[i], cols[c])
                          /\ \A k \in 1..(c - 1) : ~HasField(payload[i], cols[k])
        Before(i, j) == \/ FirstCol(i) < FirstCol(j)
                        \/ FirstCol(i) = FirstCol(j) /\ i < j
    IN  [r \in 1..Cardinality(held) |->
            payload[CHOOSE i \in held : Cardinality({j \in held : Before(j, i)}) = r - 1].key]

EntryOf(payload, key) == CHOOSE e \in Range(payload) : e.key = key

\* pd.DataFrame.from_dict(payload, orient='index', dtype=float): one row per
\* key that holds a field, a field an entry lacks is NaN, a value that is no
\* number raises
FromDict(payload) ==
    LET cols == NestedColumns(payload)
        keys == NestedIndex(payload, cols)
        unparsable == \E i \in 1..Len(payload) :
                        \E f \in Range(payload[i].fields) : ~ParseFloat(f.value).ok
    IN  IF unparsable THEN Raised("ValueError")
        ELSE Ok([index   |-> keys,
                 columns |-> cols,
                 rows    |-> [i \in 1..Len(keys) |->
                               [c \in Range(cols) |->
                                  IF HasField(EntryOf(payload, keys[i]), c)
                                  THEN ParseFloat(FieldValue(EntryOf(payload, keys[i]), c)).val
                                  ELSE NaN]]])

\* pd.to_datetime of one key string
ParseDate(key) == IF key.form = "bad" THEN Raised("ValueError") ELSE Ok(key.date)

\* df.index = pd.to_datetime(df.index)
ToDatetime(df) ==
    IF \E i \in 1..Len(df.index) : ~ParseDate(df.index[i]).ok
    THEN Raised("ValueError")
    ELSE Ok([df EXCEPT !.index = [i \in 1..Len(df.index) |-> ParseDate(df.index[i]).val]])

\* the positions of idx in ascending order of their labels; equal labels are
\* kept in their order of arrival, as the sort does on payloads this short
SortPerm(idx, n) ==
    LET Before(p, q) == idx[p] < idx[q] \/ (idx[p] = idx[q] /\ p < q)
    IN  [r \in 1..n |->
            CHOOSE p \in 1..n : Cardinality({q \in 1..n : Before(q, p)}) = r - 1]

\* df.sort_index(): the rows in ascending order of their labels
SortIndex(df) ==
    LET perm == SortPerm(df.index, Len(df.index))
    IN  [index   |-> [i \in 1..Len(perm) |-> df.index[perm[i]]],
         columns |-> df.columns,
         rows    |-> [i \in 1..Len(perm) |-> df.rows[perm[i]]]]

\* df.columns = names: the columns are relabelled by position
SetColumns(df, names) ==
    IF Len(names) # Len(df.columns) THEN Raised("ValueError")
    ELSE Ok([index   |-> df.index,
             columns |-> names,
             rows    |-> [i \in 1..Len(df.rows) |->
                            [c \in Range(names) |->
                               df.rows[i][df.columns[CHOOSE j \in 1..Len(names) : names[j] = c]]]]])

----------------------------------------------------------------------------
(* The remote protocol *)

PRICE == "TIME_SERIES_DAILY"
RSI == "RSI"
MACD == "MACD"
SMA == "SMA"
Indicators == {RSI, MACD, SMA}

\* the top-level key each function's payload is looked up under
PayloadKey(function) ==
    IF function = PRICE THEN "Time Series (Daily)"
    ELSE IF function = RSI THEN "Technical Analysis: RSI"
    ELSE IF function = MACD THEN "Technical Analysis: MACD"
    ELSE "Technical Analysis: SMA"

PriceFields == <<"1. open", "2. high", "3. low", "4. close", "5. volume">>
PriceColumns == <<"open", "high", "low", "close", "volume">>

\* requests.get(...) followed by response.json(): the decoded body, or the
\* exception of a transport failure, which _api_call does not catch
ApiCall(resp) ==
    IF resp.transport = "ok" THEN Ok(resp.body) ELSE Raised("RequestException")

----------------------------------------------------------------------------
(* The normalizers *)

\* a fault: the price getter tolerating a missing payload key the way the
\* indicator getters do
GetPriceVolumeLenient(resp) ==
    LET data == ApiCall(resp)
    IN  IF ~data.ok THEN data
        ELSE IF data.val.name # PayloadKey(PRICE) THEN Ok(EmptyDataFrame)
        ELSE LET df == FromDict(data.val.payload)
             IN  IF ~df.ok THEN df
                 ELSE LET dated == ToDatetime(df.val)
                      IN  IF ~dated.ok THEN dated
                          ELSE SetColumns(SortIndex(dated.val), PriceColumns)

\* _get_price_volume: data['Time Series (Daily)'], from_dict, to_datetime,
\* sort_index, then the positional rename of the columns
GetPriceVolumeOf(resp) ==
    LET data == ApiCall(resp)
    IN  IF ~data.ok THEN data
        ELSE IF data.val.name # PayloadKey(PRICE) THEN Raised("KeyError")
        ELSE LET df == FromDict(data.val.payload)
             IN  IF ~df.ok THEN df
                 ELSE LET dated == ToDatetime(df.val)
                      IN  IF ~dated.ok THEN dated
                          ELSE SetColumns(SortIndex(dated.val), PriceColumns)

\* a fault: an indicator getter indexing the body without the membership test
GetIndicatorStrict(function, resp) ==
    LET data == ApiCall(resp)
    IN  IF ~data.ok THEN data
        ELSE IF data.val.name # PayloadKey(function) THEN Raised("KeyError")
        ELSE LET df == FromDict(data.val.payload)
             IN  IF ~df.ok THEN df
                 ELSE LET dated == ToDatetime(df.val)
                      IN  IF ~dated.ok THEN dated
                          ELSE Ok(SortIndex(dated.val))

\* _get_rsi, _get_macd, _get_sma: the same code under three payload keys
GetIndicatorOf(function, resp) ==
    LET data == ApiCall(resp)
    IN  IF ~data.ok THEN data
        ELSE IF data.val.name # PayloadKey(function) THEN Ok(EmptyDataFrame)
        ELSE LET df == FromDict(data.val.payload)
             IN  IF ~df.ok THEN df
                 ELSE LET dated == ToDatetime(df.val)
                      IN  IF ~dated.ok THEN dated
                          ELSE Ok(SortIndex(dated.val))

----------------------------------------------------------------------------
(* The volatility column *)

\* rolling(20)
WINDOW == 20

Undefined == [kind |-> "nan", num |-> 0, den |-> 1]
Infinite == [kind |-> "inf", num |-> 0, den |-> 1]

\* close[i] / close[i-1] - 1 in floating point: a zero divisor gives inf, or
\* nan for 0/0, and never raises
Change(prev, cur) ==
    IF prev.kind # "num" \/ cur.kind # "num" THEN Undefined
    ELSE IF prev.num = 0 THEN (IF cur.num = 0 THEN Undefined ELSE Infinite)
    ELSE IF prev.num > 0
         THEN Reduced("num", cur.num * prev.den - prev.num * cur.den, prev.num * cur.den)
         ELSE Reduced("num", prev.num * cur.den - cur.num * prev.den, (-prev.num) * cur.den)

\* Series.pct_change(): the first value has no predecessor
PctChange(close) ==
    [i \in 1..Len(close) |-> IF i = 1 THEN Undefined ELSE Change(close[i - 1], close[i])]

Lcm(a, b) == (a \div Gcd(a, b)) * b

RECURSIVE LcmDen(_)
LcmDen(xs) == IF xs = <<>> THEN 1 ELSE Lcm(Head(xs).den, LcmDen(Tail(xs)))

RECURSIVE Sum(_)
Sum(xs) == IF xs = <<>> THEN 0 ELSE Head(xs) + Sum(Tail(xs))

\* the observations a rolling window counts: inf is replaced by nan before
\* the window function runs, and nan is skipped
Observations(r, lo, hi) ==
    LET RECURSIVE Pick(_)
        Pick(i) == IF i > hi THEN <<>>
                   ELSE IF r[i].kind = "num" THEN <<r[i]>> \o Pick(i + 1)
                   ELSE Pick(i + 1)
    IN  Pick(lo)

\* the degrees of freedom std() takes off the divisor
Ddof == 1

\* the standard deviation of the observations xs (more than Ddof of them):
\* sqrt((n*sum(x^2) - sum(x)^2) / (n*(n-Ddof))), over the common denominator l
StdOf(xs) ==
    LET n == Len(xs)
        l == LcmDen(xs)
        x == [j \in 1..n |-> xs[j].num * (l \div xs[j].den)]
        s1 == Sum(x)
        s2 == Sum([j \in 1..n |-> x[j] * x[j]])
    IN  Reduced("sqrt", n * s2 - s1 * s1, n * (n - Ddof) * l * l)

\* a fault: rolling(20, min_periods=1)
MinPeriodsOne(window) == 1

\* Rolling.std() with min_periods left at its default, the window length
MinPeriods(window) == window

\* Series.rolling(window).std()
RollingStd(r, window) ==
    [i \in 1..Len(r) |->
        LET lo == IF i - window + 1 < 1 THEN 1 ELSE i - window + 1
            xs == Observations(r, lo, i)
        IN  IF Len(xs) >= MinPeriods(window) /\ Len(xs) > Ddof THEN StdOf(xs) ELSE NaN]

\* df[col] as a list of cells
ColumnOf(df, col) == [i \in 1..Len(df.rows) |-> df.rows[i][col]]

\* df[name] = values, a new last column filled by position
WithColumn(df, name, values) ==
    [index   |-> df.index,
     columns |-> Append(df.columns, name),
     rows    |-> [i \in 1..Len(df.rows) |->
                    [c \in Range(df.columns) \cup {name} |->
                        IF c = name THEN values[i] ELSE df.rows[i][c]]]]

\* price_data['volatility'] = price_data['close'].pct_change().rolling(20).std()
Volatility(df) ==
    WithColumn(df, "volatility", RollingStd(PctChange(ColumnOf(df, "close")), WINDOW))

----------------------------------------------------------------------------
(* The merge *)

IsUnique(idx) == \A i, j \in 1..Len(idx) : idx[i] = idx[j] => i = j

\* a fault: the values taken row by row, whatever their labels
ReindexedByPosition(src, col, idx) ==
    Ok([i \in 1..Len(idx) |-> IF i <= Len(src.rows) THEN src.rows[i][col] ELSE NaN])

\* the values of src[col] laid along df's index: taken as they are when the
\* two indexes are equal, looked up label by label otherwise (a label src
\* lacks gives NaN); a src index with a repeated label cannot be laid along
\* another index
Reindexed(src, col, idx) ==
    IF src.index = idx THEN Ok(ColumnOf(src, col))
    ELSE IF ~IsUnique(src.index) THEN Raised("ValueError")
    ELSE Ok([i \in 1..Len(idx) |->
               IF \E j \in 1..Len(src.index) : src.index[j] = idx[i]
               THEN src.rows[CHOOSE j \in 1..Len(src.index) : src.index[j] = idx[i]][col]
               ELSE NaN])

\* df[name] = src[col]
SetItem(df, name, src, col) ==
    IF col \notin Range(src.columns) THEN Raised("KeyError")
    ELSE LET values == Reindexed(src, col, df.index)
         IN  IF ~values.ok THEN values ELSE Ok(WithColumn(df, name, values.val))

\* step: df.ok and the guard hold => SetItem, else df unchanged
Then(df, guard, name, src, col) ==
    IF ~df.ok \/ ~guard THEN df ELSE SetItem(df.val, name, src, col)

\* the rows of df whose label is one of labels
RowsAt(df, labels) ==
    LET RECURSIVE Pick(_)
        Pick(i) == IF i > Len(df.index) THEN <<>>
                   ELSE IF df.index[i] \in labels THEN <<i>> \o Pick(i + 1)
                   ELSE Pick(i + 1)
        at == Pick(1)
    IN  [index   |-> [i \in 1..Len(at) |-> df.index[at[i]]],
         columns |-> df.columns,
         rows    |-> [i \in 1..Len(at) |-> df.rows[at[i]]]]

\* a fault: an inner join, which keeps only the price rows the RSI series
\* has a date for
MergeOfInnerJoin(price, r, m, s) ==
    LET c0 == Ok(IF IsEmpty(r) THEN price ELSE RowsAt(price, Range(r.index)))
        c1 == Then(c0, ~IsEmpty(r), "rsi", r, "RSI")
        c2 == Then(c1, ~IsEmpty(m), "macd", m, "MACD")
        c3 == Then(c2, ~IsEmpty(m), "macd_signal", m, "MACD_Signal")
        c4 == Then(c3, ~IsEmpty(s), "sma_20", s, "SMA")
    IN  c4

\* a fault: every MACD field copied, the histogram too
MergeOfWithHist(price, r, m, s) ==
    LET c0 == Ok(price)
        c1 == Then(c0, ~IsEmpty(r), "rsi", r, "RSI")
        c2 == Then(c1, ~IsEmpty(m), "macd", m, "MACD")
        c3 == Then(c2, ~IsEmpty(m), "macd_signal", m, "MACD_Signal")
        c4 == Then(c3, ~IsEmpty(m), "macd_hist", m, "MACD_Hist")
        c5 == Then(c4, ~IsEmpty(s), "sma_20", s, "SMA")
    IN  c5

\* lines 39-48 of get_stock_data
MergeOf(price, r, m, s) ==
    LET c0 == Ok(price)
        c1 == Then(c0, ~IsEmpty(r), "rsi", r, "RSI")
        c2 == Then(c1, ~IsEmpty(m), "macd", m, "MACD")
        c3 == Then(c2, ~IsEmpty(m), "macd_signal", m, "MACD_Signal")
        c4 == Then(c3, ~IsEmpty(s), "sma_20", s, "SMA")
    IN  c4

----------------------------------------------------------------------------
(* The responses the remote provider may give *)

\* the key strings of the short payloads: every day in its iso spelling, and
\* the first day in a second spelling
DateKeys == {IsoKey(d) : d \in 1..NumDates} \cup {AltKey(1)}

\* a number that tells the keys apart
KeyCode(key) == 2 * key.date + (IF key.form = "alt" THEN 1 ELSE 0)

\* the payloads' key orders: every list of distinct keys, in any order
KeySeqs(keys) ==
    UNION {{ks \in [1..n -> keys] : \A i, j \in 1..n : ks[i] = ks[j] => i = j}
             : n \in 0..MaxEntries}

FieldNo(name) == CHOOSE j \in 1..Len(PriceFields) : PriceFields[j] = name

\* a price entry whose fields come in the given order; each value tells its
\* key and its field
PriceEntry(key, order) ==
    Entry(key, [j \in 1..Len(order) |->
                  Field(order[j], Num(10 * KeyCode(key) + FieldNo(order[j])))])

CloseFirst == <<"4. close", "1. open", "2. high", "3. low", "5. volume">>
FieldOrders == {PriceFields, CloseFirst}

IndicatorFields(function) ==
    IF function = RSI THEN <<"RSI">>
    ELSE IF function = MACD THEN <<"MACD", "MACD_Signal", "MACD_Hist">>
    ELSE <<"SMA">>

Base(function) == IF function = RSI THEN 100 ELSE IF function = MACD THEN 200 ELSE 300

IndicatorEntry(function, key) ==
    Entry(key, [j \in 1..Len(IndicatorFields(function)) |->
                  Field(IndicatorFields(function)[j],
                        Num(Base(function) + 10 * KeyCode(key) + j))])

TransportFailure(function) == Response(function, "error", Body("", <<>>))

\* a {"Note": ...} or {"Error Message": ...} body
Notice(function) == Response(function, "ok", Body("Note", <<>>))

Data(function, payload) == Response(function, "ok", Body(PayloadKey(function), payload))

WithValue(entry, j, raw) == [entry EXCEPT !.fields[j].value = raw]

\* price payloads: well-formed ones under every key order and field order,
\* and malformed ones (a value that is no number, a key that is no date, a
\* field too few, a field too many)
PricePayloads ==
    {[i \in 1..Len(ks) |-> PriceEntry(ks[i], order)]
        : ks \in KeySeqs(DateKeys), order \in FieldOrders}
    \cup {<<WithValue(PriceEntry(IsoKey(1), PriceFields), 1, BadString)>>,
          <<PriceEntry(BadKey, PriceFields)>>,
          <<PriceEntry(IsoKey(1), SubSeq(PriceFields, 1, 4))>>,
          <<Entry(IsoKey(1), PriceEntry(IsoKey(1), PriceFields).fields
                             \o <<Field("6. dividend", Num(0))>>)>>}

PriceResponses ==
    {TransportFailure(PRICE), Notice(PRICE)} \cup {Data(PRICE, p) : p \in PricePayloads}

\* the keys of the indicator payloads: the second spelling is sent in the RSI
\* payload (_get_rsi, _get_macd and _get_sma are the same code)
IndicatorKeys(function) ==
    IF function = RSI THEN DateKeys ELSE {IsoKey(d) : d \in 1..NumDates}

\* indicator payloads: well-formed ones under every key order, and malformed
\* ones (a value that is no number, a key that is no date, an entry with no
\* field, alone or behind a well-formed one, an entry under another field name)
IndicatorPayloads(function) ==
    {[i \in 1..Len(ks) |-> IndicatorEntry(function, ks[i])]
        : ks \in KeySeqs(IndicatorKeys(function))}
    \cup {<<WithValue(IndicatorEntry(function, IsoKey(1)), 1, BadString)>>,
          <<IndicatorEntry(function, BadKey)>>,
          <<Entry(IsoKey(1), <<>>)>>,
          <<IndicatorEntry(function, IsoKey(1)), Entry(IsoKey(NumDates), <<>>)>>,
          <<Entry(IsoKey(1), <<Field("value", Num(1))>>)>>}

IndicatorResponses(function) ==
    {TransportFailure(function), Notice(function)}
    \cup {Data(function, p) : p \in IndicatorPayloads(function)}

\* the closes of the long price payloads: a repeated pattern, with one close
\* of exactly zero at row z (no zero when z = 0)
Patterns == {<<1, 2>>, <<2, 1, 1>>, <<1, 1>>}
CloseAt(pat, z, d) == IF d = z THEN 0 ELSE pat[((d - 1) % Len(pat)) + 1]

LongEntry(d, close) ==
    Entry(IsoKey(d), [j \in 1..Len(PriceFields) |->
                        Field(PriceFields[j], Num(IF j = 5 THEN 1000 ELSE close))])

\* most recent day first, as the provider sends them
LongPayload(n, pat, z) == [i \in 1..n |-> LongEntry(n + 1 - i, CloseAt(pat, z, n + 1 - i))]

LongPriceResponses ==
    {TransportFailure(PRICE)}
    \cup {Data(PRICE, LongPayload(n, pat, z)) : n \in 0..MaxRows, pat \in Patterns, z \in 0..MaxRows}

FewIndicatorResponses(function) ==
    {TransportFailure(function), Notice(function),
     Data(function, <<IndicatorEntry(function, IsoKey(1))>>)}

----------------------------------------------------------------------------
(* The run of main() *)

Init ==
    /\ pc = "main"
    /\ credential \in BOOLEAN
    /\ config \in {"present", "missing"}
    /\ requests = 0
    /\ response = NoResponse
    /\ error = NoError
    /\ price_data = EmptyDataFrame
    /\ rsi = EmptyDataFrame
    /\ macd = EmptyDataFrame
    /\ sma = EmptyDataFrame
    /\ combined_data = EmptyDataFrame
    /\ exported = FALSE

\* an exception nothing catches ends the run
Raise(at, type) ==
    /\ pc' = "raised"
    /\ error' = [at |-> at, type |-> type]

\* a fault: the constructor without the credential check
ConstructUnchecked ==
    /\ pc = "main"
    /\ IF config = "missing" THEN Raise("__init__", "FileNotFoundError")
       ELSE pc' = "get_price" /\ error' = error
    /\ UNCHANGED <<credential, config, requests, response,
                   price_data, rsi, macd, sma, combined_data, exported>>

\* AlphaVantageDataFetcher(): the configuration file is opened, then the
\* credential is looked up
Construct ==
    /\ pc = "main"
    /\ IF config = "missing" THEN Raise("__init__", "FileNotFoundError")
       ELSE IF ~credential THEN Raise("__init__", "ValueError")
       ELSE pc' = "get_price" /\ error' = error
    /\ UNCHANGED <<credential, config, requests, response,
                   price_data, rsi, macd, sma, combined_data, exported>>

\* price_data = self._get_price_volume(symbol)
GetPriceVolumeOn(resp) ==
    /\ pc = "get_price"
    /\ requests' = requests + 1
    /\ response' = resp
    /\ LET df == GetPriceVolumeOf(resp)
       IN  IF df.ok
           THEN price_data' = df.val /\ pc' = "volatility" /\ error' = error
           ELSE price_data' = price_data /\ Raise("_get_price_volume", df.err)
    /\ UNCHANGED <<credential, config, rsi, macd, sma, combined_data, exported>>

GetPriceVolume == \E resp \in PriceResponses : GetPriceVolumeOn(resp)

GetPriceVolumeLong == \E resp \in LongPriceResponses : GetPriceVolumeOn(resp)

\* price_data['volatility'] = ...
ComputeVolatility ==
    /\ pc = "volatility"
    /\ price_data' = Volatility(price_data)
    /\ pc' = "get_rsi"
    /\ UNCHANGED <<credential, config, requests, response, error,
                   rsi, macd, sma, combined_data, exported>>

\* rsi = self._get_rsi(symbol)
GetRsiOn(resp) ==
    /\ pc = "get_rsi"
    /\ requests' = requests + 1
    /\ response' = resp
    /\ LET df == GetIndicatorOf(RSI, resp)
       IN  IF df.ok
           THEN rsi' = df.val /\ pc' = "get_macd" /\ error' = error
           ELSE rsi' = rsi /\ Raise("_get_rsi", df.err)
    /\ UNCHANGED <<credential, config, price_data, macd, sma, combined_data, exported>>

\* macd = self._get_macd(symbol)
GetMacdOn(resp) ==
    /\ pc = "get_macd"
    /\ requests' = requests + 1
    /\ response' = resp
    /\ LET df == GetIndicatorOf(MACD, resp)
       IN  IF df.ok
           THEN macd' = df.val /\ pc' = "get_sma" /\ error' = error
           ELSE macd' = macd /\ Raise("_get_macd", df.err)
    /\ UNCHANGED <<credential, config, price_data, rsi, sma, combined_data, exported>>

\* sma = self._get_sma(symbol)
GetSmaOn(resp) ==
    /\ pc = "get_sma"
    /\ requests' = requests + 1
    /\ response' = resp
    /\ LET df == GetIndicatorOf(SMA, resp)
       IN  IF df.ok
           THEN sma' = df.val /\ pc' = "merge" /\ error' = error
           ELSE sma' = sma /\ Raise("_get_sma", df.err)
    /\ UNCHANGED <<credential, config, price_data, rsi, macd, combined_data, exported>>

GetRsi == \E resp \in IndicatorResponses(RSI) : GetRsiOn(resp)
GetMacd == \E resp \in IndicatorResponses(MACD) : GetMacdOn(resp)
GetSma == \E resp \in IndicatorResponses(SMA) : GetSmaOn(resp)

GetRsiFew == \E resp \in FewIndicatorResponses(RSI) : GetRsiOn(resp)
GetMacdFew == \E resp \in FewIndicatorResponses(MACD) : GetMacdOn(resp)
GetSmaFew == \E resp \in FewIndicatorResponses(SMA) : GetSmaOn(resp)

\* combined_data = price_data.copy(), the indicator columns, return
Merge ==
    /\ pc = "merge"
    /\ LET df == MergeOf(price_data, rsi, macd, sma)
       IN  IF df.ok
           THEN combined_data' = df.val /\ pc' = "returned" /\ error' = error
           ELSE combined_data' = combined_data /\ Raise("get_stock_data", df.err)
    /\ UNCHANGED <<credential, config, requests, response,
                   price_data, rsi, macd, sma, exported>>

\* main() after get_stock_data returned: the report and data.to_csv
Export ==
    /\ pc = "returned"
    /\ exported' = TRUE
    /\ pc' = "done"
    /\ UNCHANGED <<credential, config, requests, response, error,
                   price_data, rsi, macd, sma, combined_data>>

Next ==
    \/ Construct
    \/ GetPriceVolume
    \/ ComputeVolatility
    \/ GetRsi
    \/ GetMacd
    \/ GetSma
    \/ Merge
    \/ Export

Spec == Init /\ [][Next]_vars

\* the same run over long price series, for the volatility column
NextLong ==
    \/ Construct
    \/ GetPriceVolumeLong
    \/ ComputeVolatility
    \/ GetRsiFew
    \/ GetMacdFew
    \/ GetSmaFew
    \/ Merge
    \/ Export

SpecLong == Init /\ [][NextLong]_vars

----------------------------------------------------------------------------
(* Properties *)

Returned == pc \in {"returned", "done"}

Getters == {"_get_rsi", "_get_macd", "_get_sma"}

FrameOf(function) == IF function = RSI THEN rsi ELSE IF function = MACD THEN macd ELSE sma

\* the output columns an indicator feeds, each with the field it is read from
ColumnsOf(function) ==
    IF function = RSI THEN {<<"rsi", "RSI">>}
    ELSE IF function = MACD THEN {<<"macd", "MACD">>, <<"macd_signal", "MACD_Signal">>}
    ELSE {<<"sma_20", "SMA">>}

HasBadValue(payload) ==
    \E i \in 1..Len(payload) : \E j \in 1..Len(payload[i].fields) :
        payload[i].fields[j].value.text = "bad"

HasBadKey(payload) == \E i \in 1..Len(payload) : payload[i].key.form = "bad"

Ascending(idx) == \A i, j \in 1..Len(idx) : i < j => idx[i] <= idx[j]
StrictlyAscending(idx) == \A i, j \in 1..Len(idx) : i < j => idx[i] < idx[j]

\* C1: the table get_stock_data returns has exactly the dates of the
\* price/volume series as its rows, in the same ascending order, whatever the
\* indicator series hold: the merge drops, adds and reorders no price row.
C1_MergeKeepsPriceRows ==
    Returned =>
        /\ combined_data.index = price_data.index
        /\ Len(combined_data.rows) = Len(price_data.rows)
        /\ Ascending(combined_data.index)
        /\ \A i \in 1..Len(price_data.rows) : \A c \in Range(price_data.columns) :
              combined_data.rows[i][c] = price_data.rows[i][c]

\* a table was returned with an RSI series holding a date the price series
\* lacks, an SMA series lacking a price date, and an empty MACD series
C1_Witness ==
    /\ Returned
    /\ \E d \in Range(rsi.index) : d \notin Range(price_data.index)
    /\ ~IsEmpty(sma)
    /\ \E d \in Range(price_data.index) : d \notin Range(sma.index)
    /\ IsEmpty(macd)

\* C2: in the returned table, the cell of an indicator column at a row of
\* date d holds the value the indicator series has for exactly d, and is null
\* when the series has no entry for d; no value comes from another date.
C2_CellsByExactDate ==
    Returned =>
        \A function \in Indicators : \A cf \in ColumnsOf(function) :
            cf[1] \in Range(combined_data.columns) =>
                \A i \in 1..Len(combined_data.index) :
                    LET src == FrameOf(function)
                        at == {j \in 1..Len(src.index) : src.index[j] = combined_data.index[i]}
                        cell == combined_data.rows[i][cf[1]]
                    IN  IF at = {} THEN cell = NaN
                        ELSE \E j \in at : cell = src.rows[j][cf[2]]

\* a table was returned whose rsi column has a null cell and a filled cell,
\* beside a filled macd cell
C2_Witness ==
    /\ Returned
    /\ "rsi" \in Range(combined_data.columns)
    /\ "macd" \in Range(combined_data.columns)
    /\ \E i, j \in 1..Len(combined_data.rows) :
          /\ combined_data.rows[i]["rsi"] = NaN
          /\ combined_data.rows[j]["rsi"] # NaN
          /\ combined_data.rows[j]["macd"] # NaN

\* C3: when the fetch of an optional indicator fails at transport level, or
\* its payload holds an unparsable number or date, the failure is not raised
\* past get_stock_data.
C3_IndicatorFailureSwallowed ==
    (/\ response.function \in Indicators
     /\ \/ response.transport = "error"
        \/ HasBadValue(response.body.payload)
        \/ HasBadKey(response.body.payload))
    => pc # "raised"

\* what makes the mandatory price/volume path fail
PriceFault(resp) ==
    \/ resp.transport = "error"
    \/ resp.body.name # "Time Series (Daily)"
    \/ HasBadValue(resp.body.payload)
    \/ HasBadKey(resp.body.payload)

\* C4: a failure on the price/volume path (transport failure, no
\* "Time Series (Daily)" payload, an unparsable value or date) ends
\* get_stock_data with an error, and no table, not even a partial one, is
\* returned or exported.
C4_PriceFailureIsFatal ==
    /\ (response.function = PRICE /\ PriceFault(response)) =>
          /\ pc = "raised"
          /\ error.at = "_get_price_volume"
          /\ price_data = EmptyDataFrame
    /\ pc = "raised" => combined_data = EmptyDataFrame /\ ~exported

\* the price response was a notice and the run ended with an error
C4_Witness ==
    /\ response.function = PRICE
    /\ response.transport = "ok"
    /\ response.body.name = "Note"
    /\ pc = "raised"

\* the response lacks the expected key, or holds it with zero entries
Dataless(resp) ==
    /\ resp.transport = "ok"
    /\ \/ resp.body.name # PayloadKey(resp.function)
       \/ resp.body.payload = <<>>

\* C5: for each of RSI, MACD and SMA, a response without the expected key and
\* a response whose payload has zero entries both normalize, without raising,
\* to the same empty series, and a returned table has no column for an
\* indicator whose series is that empty series.
C5_DatalessIsEmpty ==
    /\ (response.function \in Indicators /\ Dataless(response)) =>
          /\ error.at \notin Getters
          /\ FrameOf(response.function) = EmptyDataFrame
    /\ Returned =>
          \A function \in Indicators :
              FrameOf(function) = EmptyDataFrame =>
                  \A cf \in ColumnsOf(function) : cf[1] \notin Range(combined_data.columns)

\* a table was returned after an SMA response holding a zero-entry payload,
\* and it has no sma_20 column
C5_Witness ==
    /\ Returned
    /\ response.function = SMA
    /\ response.body.name = PayloadKey(SMA)
    /\ response.body.payload = <<>>
    /\ "sma_20" \notin Range(combined_data.columns)

RECURSIVE LcmOf(_)
LcmOf(ns) == IF ns = <<>> THEN 1 ELSE Lcm(Head(ns), LcmOf(Tail(ns)))

\* the sample standard deviation (divisor 19) of the 20 percentage changes
\* ending at row i, from its definition: sqrt(sum((r - mean)^2) / 19), with
\* the changes y/m over the common denominator m
SampleStd20(close, i) ==
    LET m == LcmOf([j \in 1..20 |-> close[i - 21 + j]])
        y == [j \in 1..20 |->
                (close[i - 20 + j] - close[i - 21 + j]) * (m \div close[i - 21 + j])]
        total == Sum(y)
        squares == Sum([j \in 1..20 |-> (20 * y[j] - total) * (20 * y[j] - total)])
    IN  Reduced("sqrt", squares, 400 * 19 * m * m)

\* C6: volatility at row i is null whenever the 20 percentage changes ending
\* at i are not all defined (a row among the first 20, or a change whose
\* previous close is zero in the window), and is otherwise the sample standard
\* deviation (n-1 divisor) of exactly those 20 changes; one value per row.
C6_Volatility ==
    "volatility" \in Range(price_data.columns) =>
        LET n == Len(price_data.index)
            close == [k \in 1..n |-> price_data.rows[k]["close"].num]
        IN  \A i \in 1..n :
               LET defined == {k \in (i - 19)..i : k >= 2 /\ close[k - 1] # 0}
                   vol == price_data.rows[i]["volatility"]
               IN  IF Cardinality(defined) < 20 THEN vol = NaN
                   ELSE vol = SampleStd20(close, i)

\* a series of 22 rows with a zero close: the change after the zero leaves the
\* window of the last row, which holds a value, and not that of the row before
C6_Witness ==
    /\ "volatility" \in Range(price_data.columns)
    /\ Len(price_data.index) = 22
    /\ \E k \in 1..22 : price_data.rows[k]["close"].num = 0
    /\ price_data.rows[21]["volatility"] = NaN
    /\ price_data.rows[22]["volatility"].kind = "sqrt"
    /\ price_data.rows[22]["volatility"].num > 0

\* C7: with no credential the run fails in the constructor before any
\* request is issued: no request reaches the provider, and no table and no
\* export is produced.
C7_NoCredentialNoRequest ==
    ~credential =>
        /\ requests = 0
        /\ pc \in {"main", "raised"}
        /\ pc = "raised" => error.at = "__init__"
        /\ combined_data = EmptyDataFrame
        /\ ~exported

\* the run ended on the missing credential
C7_Witness ==
    /\ ~credential
    /\ pc = "raised"
    /\ error = [at |-> "__init__", type |-> "ValueError"]

\* a series that holds at least one point
NonEmptySeries(df) == Len(df.index) > 0

\* C8: the columns of the returned table are, in this order, open, high, low,
\* close, volume, volatility, then rsi iff the RSI series is non-empty, macd
\* and macd_signal iff the MACD series is non-empty, sma_20 iff the SMA series
\* is non-empty, and no other column.
C8_ColumnOrder ==
    Returned =>
        combined_data.columns =
            <<"open", "high", "low", "close", "volume", "volatility">>
            \o (IF NonEmptySeries(rsi) THEN <<"rsi">> ELSE <<>>)
            \o (IF NonEmptySeries(macd) THEN <<"macd", "macd_signal">> ELSE <<>>)
            \o (IF NonEmptySeries(sma) THEN <<"sma_20">> ELSE <<>>)

\* a table was returned with a MACD series and neither RSI nor SMA
C8_Witness ==
    /\ Returned
    /\ NonEmptySeries(macd)
    /\ ~NonEmptySeries(rsi)
    /\ ~NonEmptySeries(sma)
    /\ Len(combined_data.columns) = 8

\* the series the last response was normalized to, once its getter returned
Normalized(function) ==
    IF function = PRICE THEN pc \in {"volatility", "get_rsi"}
    ELSE error.at \notin Getters \cup {"_get_price_volume"}

SeriesOf(function) == IF function = PRICE THEN price_data ELSE FrameOf(function)

\* C9: every non-empty series a getter returns has strictly ascending,
\* pairwise distinct dates and one row per date key of the payload, also when
\* two distinct key strings denote the same calendar date.
C9_StrictlyAscendingOneRowPerKey ==
    (/\ response.function \in Indicators \cup {PRICE}
     /\ response.transport = "ok"
     /\ response.body.name = PayloadKey(response.function)
     /\ Normalized(response.function)
     /\ ~IsEmpty(SeriesOf(response.function)))
    => /\ StrictlyAscending(SeriesOf(response.function).index)
       /\ Len(SeriesOf(response.function).index) = Len(response.body.payload)

\* every entry holds the five price fields, in some order
FiveFields(payload) ==
    \A i \in 1..Len(payload) :
        /\ Len(payload[i].fields) = 5
        /\ \A j \in 1..5 : HasField(payload[i], PriceFields[j])

\* C10: for every date of a price payload whose entries each hold the five
\* fields, the columns open, high, low, close, volume hold the values of
\* "1. open", "2. high", "3. low", "4. close", "5. volume", whatever the order
\* of the fields inside the entries.
C10_ColumnsByFieldName ==
    (/\ response.function = PRICE
     /\ pc = "volatility"
     /\ FiveFields(response.body.payload))
    => \A i \in 1..Len(price_data.index) :
          \E e \in Range(response.body.payload) :
              /\ e.key.date = price_data.index[i]
              /\ \A j \in 1..5 :
                    price_data.rows[i][PriceColumns[j]] = Float(FieldValue(e, PriceFields[j]).number)

====
